---- MODULE Spec2Model ----
(***************************************************************************)
(* Model of the conversational retrieval pipeline of rag-tests:            *)
(*   src/src/index.ts      the POST /generate route                        *)
(*   src/unnamed/part_000  the pipeline (lib/helpers): handler,            *)
(*                         createFinalRetrievalChain and its parts         *)
(* One action is one resumption of a request's async code, from the await  *)
(* it was suspended on up to the next await (or to its end).  The external *)
(* capabilities (document loader, embeddings, chat model) answer with a    *)
(* nondeterministic result or with an error.                               *)
(***************************************************************************)
EXTENDS Integers, Sequences, FiniteSets, TLC

\* ---------------------------------------------------------------- bounds
NumReqs == 2        \* requests the process receives
MaxFrags == 2       \* fragments in one streamed answer
MaxChunks == 2      \* chunks the document splits into

Reqs == 1..NumReqs

\* "" is the missing (undefined / empty, i.e. falsy) value of a body field
Questions == {"", "q1"}
SessionIds == {"", "s1", "s2"}

\* the value of a slot nothing has been stored in yet
Null == "null"

\* the same for a list of documents
NoDocs == <<Null>>

\* ---------------------------------------------------------------- state
VARIABLES
    pdf,              \* chunks the fixed document splits into (maybe none)
    ranking,          \* order of similarity of the chunks to the question
    pc,               \* where each request's async code is suspended
    question,         \* req.body.question
    sessionId,        \* req.body.session_id
    resStatus,        \* status code set on the response (0: none set)
    resHeaders,       \* TRUE once the streaming headers have been set
    resBody,          \* fragments written with res.write
    resEnded,         \* TRUE once the response has been ended
    handlerCalls,     \* number of handler() invocations, per request
    docLoads,         \* number of document loads, process wide
    indexBuilds,      \* number of vector stores built, process wide
    vectorStore,      \* per handler call: the chunks of its vector store
    messageHistories, \* per handler call: its sessionId -> history map
    historyRead,      \* history handed to the prompts of the request
    rewriteCalls,     \* calls of the rephrase model, per request
    standalone,       \* standalone_question of the request
    retrieveCalls,    \* retriever invocations, per request
    retrievalQuery,   \* text handed to the retriever
    context,          \* context block of the request
    genCalls,         \* calls of the answer model, per request
    genOut,           \* fragments pulled from the answer stream so far
    slot,             \* the chunk queued in the returned stream, or Null
    genDone,          \* TRUE once the answer stream has ended normally
    earlier,          \* requests completed when r looked its session up
    disconnected,     \* TRUE once the caller has closed the connection
    splitDocs,        \* chunks loadAndSplitChunks returned to r, or NoDocs
    docEmbedMode,     \* task type the chunks of r's store were embedded with
    queryEmbedMode    \* task type the query of r was embedded with

vars == <<pdf, ranking, pc, question, sessionId, resStatus, resHeaders, resBody,
          resEnded, handlerCalls, docLoads, indexBuilds, vectorStore,
          messageHistories, historyRead, rewriteCalls, standalone,
          retrieveCalls, retrievalQuery, context, genCalls, genOut, slot,
          genDone, earlier, disconnected, splitDocs, docEmbedMode,
          queryEmbedMode>>

docVars == <<pdf, ranking>>
embedVars == <<splitDocs, docEmbedMode, queryEmbedMode>>
resVars == <<resStatus, resHeaders, resBody, resEnded>>
reqVars == <<question, sessionId, disconnected>>
storeVars == <<vectorStore, messageHistories, historyRead, earlier>>
chainVars == <<rewriteCalls, standalone, retrieveCalls, retrievalQuery,
               context, genCalls>>
streamVars == <<genOut, slot, genDone>>
countVars == <<handlerCalls, docLoads, indexBuilds>>

\* ---------------------------------------------------------------- helpers
\* index.ts:13  !question || !session_id
\* (a test of the question alone would be the first)
Missing_onlyQuestion(q, s) == q = ""
Missing(q, s) == q = "" \/ s = ""

\* the i-th chunk of the document
Chunk(i) == "c" \o ToString(i)

\* the text of the i-th fragment of an answer, as its code points: an
\* e with acute accent (U+00E9) followed by the digit i
Fragment(i) == <<233, 48 + i>>

\* the string of a text given by its code points
CharOf(cp) ==
    IF cp \in 48..57 THEN ToString(cp - 48)
    ELSE IF cp = 233 THEN "e'"
    ELSE "?"

RECURSIVE StringOf(_)
StringOf(cps) ==
    IF cps = <<>> THEN "" ELSE CharOf(Head(cps)) \o StringOf(Tail(cps))

\* default number of matches of vectorStore.asRetriever()
K == 4

Min(a, b) == IF a < b THEN a ELSE b

RECURSIVE Join(_, _)
\* Array.prototype.join
Join(strs, sep) ==
    IF Len(strs) = 0 THEN ""
    ELSE IF Len(strs) = 1 THEN strs[1]
    ELSE strs[1] \o sep \o Join(Tail(strs), sep)

\* (joined without the newline separator)
convertDocsToString_noSeparator(documents) ==
    Join([i \in 1..Len(documents) |-> "<doc>\n" \o documents[i] \o "\n</doc>"],
         "")

\* part_000:60-66
convertDocsToString(documents) ==
    Join([i \in 1..Len(documents) |-> "<doc>\n" \o documents[i] \o "\n</doc>"],
         "\n")

\* the orders in which a similarity query can rank the n entries of a store
Rankings(n) ==
    {d \in [1..n -> 1..n] : \A i, j \in 1..n : i # j => d[i] # d[j]}

\* the result of a similarity query over a store whose entries rank as
\* rank: the first min(K, |store|) entries in the order of similarity
RankedResults(store, rank) ==
    [i \in 1..Min(K, Len(store)) |-> store[rank[i]]]

\* part_000:72  the first step of the document retrieval chain
RetrieverInput(input) == input.question

\* part_000:51-55, 114: the one embedding model of the vector store; the
\* store embeds the chunks with it and its retriever embeds the queries
embeddingModel ==
    [model |-> "text-embedding-004", taskType |-> "RETRIEVAL_DOCUMENT"]

\* messages
HumanMessage(text) == [role |-> "user", content |-> text]
AIMessage(text) == [role |-> "assistant", content |-> text]

\* (a map kept from an earlier call, if there is one, would be the first)
newMessageHistories_kept ==
    IF \E o \in Reqs : DOMAIN messageHistories[o] # {}
    THEN messageHistories[CHOOSE o \in Reqs : DOMAIN messageHistories[o] # {}]
    ELSE << >>

\* part_000:155  the map a call of createFinalRetrievalChain starts with
newMessageHistories == << >>

\* part_000:156-163, on the map mh
getMessageHistoryForSession(mh, sid) ==
    IF sid \in DOMAIN mh THEN mh ELSE mh @@ (sid :> <<>>)

\* RunnableWithMessageHistory, entering the run: the history is read and
\* handed to the prompts under the key "history"; nothing is stored
\* (a wrapper storing the input message on entry would return the first)
EnterHistory_appendInput(h, q) == Append(h, HumanMessage(q))
EnterHistory(h, q) == h

\* RunnableWithMessageHistory, the wrapped run has ended without error:
\* the input message and the aggregated output message are stored
\* (a wrapper storing the output alone would be the first)
ExitHistory_outputOnly(h, q, frags) ==
    Append(h, AIMessage(Join([i \in 1..Len(frags) |-> StringOf(frags[i])], "")))

ExitHistory(h, q, frags) ==
    h \o <<HumanMessage(q),
           AIMessage(Join([i \in 1..Len(frags) |-> StringOf(frags[i])], ""))>>

\* the UTF-8 bytes of one code point
Utf8(cp) ==
    IF cp < 128 THEN <<cp>>
    ELSE IF cp < 2048 THEN <<192 + (cp \div 64), 128 + (cp % 64)>>
    ELSE <<224 + (cp \div 4096), 128 + ((cp \div 64) % 64), 128 + (cp % 64)>>

RECURSIVE Encode(_)
\* part_000:151-153  HttpResponseOutputParser (text/plain): the text of a
\* chunk as UTF-8 bytes (TextEncoder.encode)
Encode(text) ==
    IF text = <<>> THEN <<>> ELSE Utf8(Head(text)) \o Encode(Tail(text))

\* a continuation byte of a UTF-8 sequence
IsCont(b) == b >= 128 /\ b < 192

\* the replacement character a decoder gives for a malformed sequence
Replacement == 65533

RECURSIVE Decode_latin1(_)
\* (a decoder taking every byte for one character)
Decode_latin1(bytes) ==
    IF bytes = <<>> THEN <<>> ELSE <<Head(bytes)>> \o Decode_latin1(Tail(bytes))

RECURSIVE Decode(_)
\* index.ts:23  new TextDecoder().decode(chunk): the bytes of one chunk,
\* decoded on their own, back to text
Decode(bytes) ==
    IF bytes = <<>> THEN <<>>
    ELSE LET b == bytes[1]
             n == Len(bytes)
         IN IF b < 128 THEN <<b>> \o Decode(Tail(bytes))
            ELSE IF b >= 192 /\ b < 224 /\ n >= 2 /\ IsCont(bytes[2])
            THEN <<(b - 192) * 64 + (bytes[2] - 128)>>
                 \o Decode(SubSeq(bytes, 3, n))
            ELSE IF b >= 224 /\ b < 240 /\ n >= 3
                    /\ IsCont(bytes[2]) /\ IsCont(bytes[3])
            THEN <<(b - 224) * 4096 + (bytes[2] - 128) * 64 + (bytes[3] - 128)>>
                 \o Decode(SubSeq(bytes, 4, n))
            ELSE <<Replacement>> \o Decode(Tail(bytes))

\* the history of session sid in the map of request r's handler call
Hist(r, sid) ==
    IF sid \in DOMAIN messageHistories[r] THEN messageHistories[r][sid]
    ELSE <<>>

\* ---------------------------------------------------------------- Init
Init ==
    /\ pdf \in {[i \in 1..n |-> Chunk(i)] : n \in {0, MaxChunks}}
    /\ ranking \in Rankings(Len(pdf))
    /\ pc = [r \in Reqs |-> "idle"]
    /\ question = [r \in Reqs |-> ""]
    /\ sessionId = [r \in Reqs |-> ""]
    /\ resStatus = [r \in Reqs |-> 0]
    /\ resHeaders = [r \in Reqs |-> FALSE]
    /\ resBody = [r \in Reqs |-> <<>>]
    /\ resEnded = [r \in Reqs |-> FALSE]
    /\ handlerCalls = [r \in Reqs |-> 0]
    /\ docLoads = 0
    /\ indexBuilds = 0
    /\ vectorStore = [r \in Reqs |-> <<>>]
    /\ messageHistories = [r \in Reqs |-> << >>]
    /\ historyRead = [r \in Reqs |-> <<>>]
    /\ rewriteCalls = [r \in Reqs |-> 0]
    /\ standalone = [r \in Reqs |-> Null]
    /\ retrieveCalls = [r \in Reqs |-> 0]
    /\ retrievalQuery = [r \in Reqs |-> Null]
    /\ context = [r \in Reqs |-> Null]
    /\ genCalls = [r \in Reqs |-> 0]
    /\ genOut = [r \in Reqs |-> <<>>]
    /\ slot = [r \in Reqs |-> Null]
    /\ genDone = [r \in Reqs |-> FALSE]
    /\ earlier = [r \in Reqs |-> {}]
    /\ disconnected = [r \in Reqs |-> FALSE]
    /\ splitDocs = [r \in Reqs |-> NoDocs]
    /\ docEmbedMode = [r \in Reqs |-> Null]
    /\ queryEmbedMode = [r \in Reqs |-> Null]

\* ---------------------------------------------------------------- actions
\* requests are numbered in the order of their arrival
Arrives(r) == pc[r] = "idle" /\ \A o \in Reqs : o < r => pc[o] # "idle"

\* session ids are named in the order of their first use
InOrder(r, s) == s = "s2" => \E o \in Reqs : o < r /\ sessionId[o] = "s1"

\* (were res.setHeader not to throw, the callback would go on to handler())
RequestInvalid_fallsThrough(r) ==
    \E q \in Questions, s \in SessionIds :
        /\ Arrives(r)
        /\ InOrder(r, s)
        /\ Missing(q, s)
        /\ question' = [question EXCEPT ![r] = q]
        /\ sessionId' = [sessionId EXCEPT ![r] = s]
        /\ resStatus' = [resStatus EXCEPT ![r] = 400]
        /\ resEnded' = [resEnded EXCEPT ![r] = TRUE]
        /\ resHeaders' = [resHeaders EXCEPT ![r] = TRUE]
        /\ handlerCalls' = [handlerCalls EXCEPT ![r] = @ + 1]
        /\ docLoads' = docLoads + 1
        /\ pc' = [pc EXCEPT ![r] = "loading"]
        /\ UNCHANGED <<docVars, embedVars, resBody, indexBuilds, storeVars,
                       chainVars, streamVars, disconnected>>

\* index.ts:10-18 with a missing field: the 400 body is sent, and as the
\* branch does not return, res.setHeader runs on a response whose headers
\* are already sent and throws: the callback ends there
RequestInvalid(r) ==
    \E q \in Questions, s \in SessionIds :
        /\ Arrives(r)
        /\ InOrder(r, s)
        /\ Missing(q, s)
        /\ question' = [question EXCEPT ![r] = q]
        /\ sessionId' = [sessionId EXCEPT ![r] = s]
        /\ resStatus' = [resStatus EXCEPT ![r] = 400]
        /\ resEnded' = [resEnded EXCEPT ![r] = TRUE]
        /\ pc' = [pc EXCEPT ![r] = "rejected"]
        /\ UNCHANGED <<docVars, embedVars, resHeaders, resBody, countVars, storeVars,
                       chainVars, streamVars, disconnected>>

\* index.ts:10-20 with both fields, up to the first await of handler():
\* createFinalRetrievalChain -> loadAndSplitChunks -> loader.load()
RequestValid(r) ==
    \E q \in Questions, s \in SessionIds :
        /\ Arrives(r)
        /\ InOrder(r, s)
        /\ ~Missing(q, s)
        /\ question' = [question EXCEPT ![r] = q]
        /\ sessionId' = [sessionId EXCEPT ![r] = s]
        /\ resHeaders' = [resHeaders EXCEPT ![r] = TRUE]
        /\ handlerCalls' = [handlerCalls EXCEPT ![r] = @ + 1]
        /\ docLoads' = docLoads + 1
        /\ pc' = [pc EXCEPT ![r] = "loading"]
        /\ UNCHANGED <<docVars, embedVars, resStatus, resBody, resEnded, indexBuilds,
                       storeVars, chainVars, streamVars, disconnected>>

\* an awaited call of request r throws: nothing catches it in handler() or
\* in the route callback, whose promise rejects; line 27 is not reached
Throw(r) ==
    /\ pc' = [pc EXCEPT ![r] = "failed"]
    /\ UNCHANGED <<docVars, embedVars, reqVars, resVars, countVars, storeVars, chainVars,
                   streamVars>>

\* part_000:36-45  the document is loaded and split; then part_000:51-56
LoadOk(r) ==
    /\ pc[r] = "loading"
    /\ splitDocs' = [splitDocs EXCEPT ![r] = pdf]
    /\ pc' = [pc EXCEPT ![r] = "indexing"]
    /\ UNCHANGED <<docVars, docEmbedMode, queryEmbedMode, reqVars, resVars,
                   countVars, storeVars, chainVars, streamVars>>

LoadFail(r) ==
    /\ pc[r] = "loading"
    /\ Throw(r)

\* part_000:56-57, 113-172 and 181-187: the chunks are embedded and stored;
\* the chains and an empty messageHistories map are created; stream() looks
\* the session up, reads its history, and the rephrase model is called
IndexOk(r) ==
    /\ pc[r] = "indexing"
    /\ indexBuilds' = indexBuilds + 1
    /\ vectorStore' = [vectorStore EXCEPT ![r] = splitDocs[r]]
    /\ docEmbedMode' = [docEmbedMode EXCEPT ![r] = embeddingModel.taskType]
    /\ LET sid == sessionId[r]
           mh == getMessageHistoryForSession(newMessageHistories, sid)
           h == EnterHistory(mh[sid], question[r])
       IN /\ messageHistories' =
                 [messageHistories EXCEPT ![r] = [mh EXCEPT ![sid] = h]]
          /\ historyRead' = [historyRead EXCEPT ![r] = h]
    /\ earlier' = [earlier EXCEPT ![r] = {o \in Reqs : pc[o] = "completed"}]
    /\ rewriteCalls' = [rewriteCalls EXCEPT ![r] = @ + 1]
    /\ pc' = [pc EXCEPT ![r] = "rewriting"]
    /\ UNCHANGED <<docVars, splitDocs, queryEmbedMode, reqVars, resVars, handlerCalls, docLoads, standalone,
                   retrieveCalls, retrievalQuery, context, genCalls,
                   streamVars>>

\* the embedding of a chunk throws; a build that kept what it had embedded
\* would go on with a store lacking the last chunk
IndexFail_partial(r) ==
    /\ pc[r] = "indexing"
    /\ indexBuilds' = indexBuilds + 1
    /\ vectorStore' = [vectorStore EXCEPT ![r] =
           SubSeq(splitDocs[r], 1, Len(splitDocs[r]) - 1)]
    /\ docEmbedMode' = [docEmbedMode EXCEPT ![r] = embeddingModel.taskType]
    /\ LET sid == sessionId[r]
           mh == getMessageHistoryForSession(newMessageHistories, sid)
           h == EnterHistory(mh[sid], question[r])
       IN /\ messageHistories' =
                 [messageHistories EXCEPT ![r] = [mh EXCEPT ![sid] = h]]
          /\ historyRead' = [historyRead EXCEPT ![r] = h]
    /\ earlier' = [earlier EXCEPT ![r] = {o \in Reqs : pc[o] = "completed"}]
    /\ rewriteCalls' = [rewriteCalls EXCEPT ![r] = @ + 1]
    /\ pc' = [pc EXCEPT ![r] = "rewriting"]
    /\ UNCHANGED <<docVars, splitDocs, queryEmbedMode, reqVars, resVars, handlerCalls, docLoads, standalone,
                   retrieveCalls, retrievalQuery, context, genCalls,
                   streamVars>>

IndexFail(r) ==
    /\ pc[r] = "indexing"
    /\ Throw(r)

\* the rephrase model answers with a rewording of the question
Standalones(q) == {"s" \o q}

\* a sequence without the retrieval step would call the answer model next
RewriteOk_skipRetrieval(r) ==
    \E sq \in Standalones(question[r]) :
        /\ pc[r] = "rewriting"
        /\ standalone' = [standalone EXCEPT ![r] = sq]
        /\ genCalls' = [genCalls EXCEPT ![r] = @ + 1]
        /\ pc' = [pc EXCEPT ![r] = "generating"]
        /\ UNCHANGED <<docVars, embedVars, reqVars, resVars, countVars, storeVars,
                       rewriteCalls, retrieveCalls, retrievalQuery, context,
                       streamVars>>

\* part_000:141-146: the rephrase chain has returned its string; the
\* document retrieval chain is run on the input with standalone_question
RewriteOk(r) ==
    \E sq \in Standalones(question[r]) :
        /\ pc[r] = "rewriting"
        /\ standalone' = [standalone EXCEPT ![r] = sq]
        /\ retrievalQuery' = [retrievalQuery EXCEPT ![r] =
               RetrieverInput([question |-> question[r],
                               history |-> historyRead[r],
                               standalone_question |-> sq])]
        /\ retrieveCalls' = [retrieveCalls EXCEPT ![r] = @ + 1]
        /\ queryEmbedMode' =
               [queryEmbedMode EXCEPT ![r] = embeddingModel.taskType]
        /\ pc' = [pc EXCEPT ![r] = "retrieving"]
        /\ UNCHANGED <<docVars, splitDocs, docEmbedMode, reqVars, resVars, countVars, storeVars,
                       rewriteCalls, context, genCalls, streamVars>>

\* the rephrase call throws; a pipeline that retried would call it again
RewriteFail_retryOnce(r) ==
    /\ pc[r] = "rewriting"
    /\ IF rewriteCalls[r] < 2
       THEN /\ rewriteCalls' = [rewriteCalls EXCEPT ![r] = @ + 1]
            /\ UNCHANGED <<docVars, embedVars, pc, reqVars, resVars, countVars, storeVars,
                           standalone, retrieveCalls, retrievalQuery,
                           context, genCalls, streamVars>>
       ELSE Throw(r)

RewriteFail(r) ==
    /\ pc[r] = "rewriting"
    /\ Throw(r)

\* part_000:73-74 and 147-148: the retriever has returned its ranked
\* documents, they are serialised, the prompt is built and the answer
\* model is called in streaming mode
RetrieveOk(r) ==
    /\ pc[r] = "retrieving"
    /\ context' = [context EXCEPT ![r] =
           convertDocsToString(RankedResults(vectorStore[r], ranking))]
    /\ genCalls' = [genCalls EXCEPT ![r] = @ + 1]
    /\ pc' = [pc EXCEPT ![r] = "generating"]
    /\ UNCHANGED <<docVars, embedVars, reqVars, resVars, countVars, storeVars,
                   rewriteCalls, standalone, retrieveCalls, retrievalQuery,
                   streamVars>>

\* the embedding of the query throws
RetrieveFail(r) ==
    /\ pc[r] = "retrieving"
    /\ Throw(r)

\* the returned stream queues one chunk: the answer stream is pulled again
\* only when the queued chunk has been taken by the for-await loop
Pulling(r) == pc[r] = "generating" /\ slot[r] = Null /\ ~genDone[r]

\* part_000:148-153, 170: the answer model yields a fragment, the output
\* parser turns it into bytes
GenChunk(r) ==
    /\ Pulling(r)
    /\ Len(genOut[r]) < MaxFrags
    /\ LET f == Fragment(Len(genOut[r]) + 1)
       IN /\ genOut' = [genOut EXCEPT ![r] = Append(@, f)]
          /\ slot' = [slot EXCEPT ![r] = Encode(f)]
    /\ UNCHANGED <<docVars, embedVars, pc, reqVars, resVars, countVars, storeVars,
                   chainVars, genDone>>

\* part_000:165-170: the answer stream ends, the wrapped run ends without
\* error and the exchange is stored in the session's history
GenEnd(r) ==
    /\ Pulling(r)
    /\ Len(genOut[r]) >= 1
    /\ genDone' = [genDone EXCEPT ![r] = TRUE]
    /\ messageHistories' = [messageHistories EXCEPT ![r][sessionId[r]] =
           ExitHistory(@, question[r], genOut[r])]
    /\ UNCHANGED <<docVars, embedVars, pc, reqVars, resVars, countVars, vectorStore,
                   historyRead, earlier, chainVars, genOut, slot>>

\* the answer model throws, at its call or in the middle of the stream
GenFail(r) ==
    /\ Pulling(r)
    /\ Throw(r)

\* index.ts:22-24: one turn of the for-await loop
WriteChunk(r) ==
    /\ pc[r] = "generating"
    /\ slot[r] # Null
    /\ resBody' = [resBody EXCEPT ![r] = Append(@, Decode(slot[r]))]
    /\ slot' = [slot EXCEPT ![r] = Null]
    /\ UNCHANGED <<docVars, embedVars, pc, reqVars, resStatus, resHeaders, resEnded,
                   countVars, storeVars, chainVars, genOut, genDone>>

\* index.ts:27: the stream is exhausted
End(r) ==
    /\ pc[r] = "generating"
    /\ slot[r] = Null
    /\ genDone[r]
    /\ resEnded' = [resEnded EXCEPT ![r] = TRUE]
    /\ pc' = [pc EXCEPT ![r] = "completed"]
    /\ UNCHANGED <<docVars, embedVars, reqVars, resStatus, resHeaders, resBody, countVars,
                   storeVars, chainVars, streamVars>>

\* the caller closes the connection in the middle of the streamed answer:
\* index.ts registers no listener for it and hands no abort signal to
\* handler(), so nothing else of the request's state changes
Disconnect(r) ==
    /\ pc[r] = "generating"
    /\ resBody[r] # <<>>
    /\ ~disconnected[r]
    /\ disconnected' = [disconnected EXCEPT ![r] = TRUE]
    /\ UNCHANGED <<docVars, embedVars, pc, question, sessionId, resVars, countVars,
                   storeVars, chainVars, streamVars>>

Next ==
    \E r \in Reqs :
        \/ RequestInvalid(r)
        \/ RequestValid(r)
        \/ LoadOk(r)
        \/ LoadFail(r)
        \/ IndexOk(r)
        \/ IndexFail(r)
        \/ RewriteOk(r)
        \/ RewriteFail(r)
        \/ RetrieveOk(r)
        \/ RetrieveFail(r)
        \/ GenChunk(r)
        \/ GenEnd(r)
        \/ GenFail(r)
        \/ WriteChunk(r)
        \/ End(r)

Spec == Init /\ [][Next]_vars

\* the same with callers that may close the connection.  No action reads
\* disconnected, so the two specifications agree on every other variable
NextOrDisconnect ==
    \/ Next
    \/ \E r \in Reqs : Disconnect(r)

SpecDisconnect == Init /\ [][NextOrDisconnect]_vars

\* ---------------------------------------------------------------- types
TypeOK ==
    /\ pc \in [Reqs -> {"idle", "rejected", "loading", "indexing",
                        "rewriting", "retrieving", "generating",
                        "completed", "failed"}]
    /\ question \in [Reqs -> Questions]
    /\ sessionId \in [Reqs -> SessionIds]
    /\ \A r \in Reqs : Len(genOut[r]) <= MaxFrags
    /\ docLoads \in 0..NumReqs
    /\ indexBuilds \in 0..NumReqs

\* ---------------------------------------------------------------- claims
Range(f) == {f[i] : i \in DOMAIN f}
RealSessions == SessionIds \ {""}

\* the request's rephrase call threw
RewriteFailed(r) ==
    pc[r] = "failed" /\ rewriteCalls[r] >= 1 /\ standalone[r] = Null

\* the other requests of r's session that had completed before r looked
\* its session up
SameBefore(r) == {o \in earlier[r] : sessionId[o] = sessionId[r]}

\* r ran after every other request of its session that reached handler()
Sequential(r) ==
    \A o \in Reqs \ {r} :
        (sessionId[o] = sessionId[r] /\ handlerCalls[o] > 0)
            => o \in earlier[r]

\* r1 and r2 were in flight together: neither had completed when the other
\* looked the session up
Concurrent(r1, r2) ==
    /\ r1 # r2
    /\ pc[r1] \notin {"idle", "rejected", "loading", "indexing"}
    /\ pc[r2] \notin {"idle", "rejected", "loading", "indexing"}
    /\ r1 \notin earlier[r2]
    /\ r2 \notin earlier[r1]

\* C1: a request whose question or session_id is missing is answered with
\* status 400 and never reaches the pipeline: handler() is not invoked for
\* it, so it makes no document load, index build, rewrite, retrieval or
\* generation call and nothing is streamed to it.
C1_MissingFieldRejected ==
    \A r \in Reqs :
        (pc[r] # "idle" /\ (question[r] = "" \/ sessionId[r] = "")) =>
            /\ pc[r] = "rejected"
            /\ resStatus[r] = 400
            /\ handlerCalls[r] = 0
            /\ rewriteCalls[r] = 0
            /\ retrieveCalls[r] = 0
            /\ genCalls[r] = 0
            /\ vectorStore[r] = <<>>
            /\ resBody[r] = <<>>

C1_Witness ==
    \E r \in Reqs :
        /\ pc[r] = "rejected"
        /\ question[r] # ""
        /\ sessionId[r] = ""
        /\ \E o \in Reqs : pc[o] = "completed"

\* C2 (as stated): after N sequential successful requests of one session
\* on a fresh process, the session's history holds 2N messages.
C2_Orig_HistoryGrowsBy2N ==
    \A r \in Reqs :
        (genDone[r] /\ Sequential(r)) =>
            Len(Hist(r, sessionId[r])) = 2 * (1 + Cardinality(SameBefore(r)))

\* C3 (as stated): the text handed to the retriever is the standalone
\* question the rewriter produced in the same request.
C3_Orig_RetrieverGetsStandalone ==
    \A r \in Reqs :
        retrievalQuery[r] # Null => retrievalQuery[r] = standalone[r]

\* C4: a session's history changes only in the step in which the request's
\* answer stream ends normally; while the stream has not completed, and
\* after a failure, the history is what it was when the request started
\* (empty), with neither a user nor a partial assistant message.
C4_HistoryOnlyAfterDrain ==
    /\ [](\A r \in Reqs : ~genDone[r] => Hist(r, sessionId[r]) = <<>>)
    /\ [][\A r \in Reqs, s \in SessionIds :
            Hist(r, s)' # Hist(r, s) =>
                /\ pc[r] = "generating"
                /\ ~genDone[r]
                /\ genDone'[r]
                /\ s = sessionId[r]]_vars

C4_Witness ==
    \E r \in Reqs :
        /\ pc[r] = "failed"
        /\ Len(resBody[r]) >= 1
        /\ Hist(r, sessionId[r]) = <<>>
        /\ \E o \in Reqs : genDone[o] /\ Len(Hist(o, sessionId[o])) = 2

\* C5: within a request the retrieval is started only when the rewrite has
\* returned, the generation only when the retrieval has returned, and no
\* fragment is pulled or written before both have returned; a completed
\* request went through all three.
C5_StageOrder ==
    \A r \in Reqs :
        /\ retrieveCalls[r] > 0 => (rewriteCalls[r] > 0 /\ standalone[r] # Null)
        /\ genCalls[r] > 0 => (retrieveCalls[r] > 0 /\ context[r] # Null)
        /\ (genOut[r] # <<>> \/ slot[r] # Null \/ resBody[r] # <<>>) =>
               (genCalls[r] > 0 /\ standalone[r] # Null /\ context[r] # Null)
        /\ pc[r] = "rewriting" => (standalone[r] = Null /\ retrieveCalls[r] = 0)
        /\ pc[r] = "retrieving" => (context[r] = Null /\ genCalls[r] = 0)
        /\ pc[r] = "completed" => (genDone[r] /\ genCalls[r] > 0)

C5_Witness ==
    \E r \in Reqs :
        /\ pc[r] = "completed"
        /\ Len(resBody[r]) = MaxFrags
        /\ context[r] # Null

\* C6: when the rephrase call fails the request has failed after exactly
\* one rephrase call, with no retrieval and no generation call, nothing
\* written to the caller and the session history unchanged.
C6_RewriteFailure ==
    \A r \in Reqs :
        /\ rewriteCalls[r] <= 1
        /\ RewriteFailed(r) =>
               /\ retrieveCalls[r] = 0
               /\ genCalls[r] = 0
               /\ resBody[r] = <<>>
               /\ slot[r] = Null
               /\ Hist(r, sessionId[r]) = <<>>

C6_Witness == \E r \in Reqs : RewriteFailed(r)

\* C7 (as stated): there is one session per sessionId in the process, and
\* the history a request reads holds the messages of every request of the
\* same session that completed before it.
C7_Orig_OneSessionPerId ==
    /\ \A s \in RealSessions :
           Cardinality({r \in Reqs : s \in DOMAIN messageHistories[r]}) <= 1
    /\ \A r \in Reqs : \A o \in SameBefore(r) :
           HumanMessage(question[o]) \in Range(historyRead[r])

\* C8 (as stated): a request whose pipeline was started and has come to its
\* end, normally or by a failure, has had its response ended.
C8_Orig_ResponseEnded ==
    \A r \in Reqs :
        (handlerCalls[r] > 0 /\ pc[r] \in {"completed", "failed"}) =>
            resEnded[r]

\* C9 (as stated): however many requests are served, the document is loaded
\* and the index built once in the process.
C9_Orig_IndexBuiltOnce ==
    (\E r \in Reqs : pc[r] = "completed") =>
        (indexBuilds = 1 /\ docLoads = 1)

\* C10 (as stated): two requests of one session in flight together share
\* the session, and once both have completed its history holds the four
\* messages of the two exchanges.
C10_Orig_ConcurrentAppends ==
    \A r1, r2 \in Reqs :
        (/\ Concurrent(r1, r2)
         /\ sessionId[r1] = sessionId[r2]
         /\ pc[r1] = "completed"
         /\ pc[r2] = "completed") =>
            /\ Hist(r1, sessionId[r1]) = Hist(r2, sessionId[r2])
            /\ Len(Hist(r1, sessionId[r1])) = 4

\* C11 (as stated): once the caller has disconnected in the middle of the
\* stream, no further fragment is pulled from the answer stream of the
\* request and its session history receives no message.
C11_Orig_DisconnectCancels ==
    [][\A r \in Reqs :
        disconnected[r] =>
            /\ genOut'[r] = genOut[r]
            /\ Hist(r, sessionId[r])' = Hist(r, sessionId[r])]_vars

\* C12 (as stated): every query is embedded in a query mode distinct from
\* the mode the chunks were embedded with, never in RETRIEVAL_DOCUMENT mode.
C12_Orig_QueryEmbedMode ==
    \A r \in Reqs :
        queryEmbedMode[r] # Null =>
            /\ queryEmbedMode[r] # "RETRIEVAL_DOCUMENT"
            /\ queryEmbedMode[r] # docEmbedMode[r]

\* the blocks of docs from the i-th on, each wrapped in the <doc> delimiter
\* and separated by a newline from the next
RECURSIVE WrappedFrom(_, _)
WrappedFrom(docs, i) ==
    IF i > Len(docs) THEN ""
    ELSE "<doc>\n" \o docs[i] \o "\n</doc>"
         \o (IF i < Len(docs) THEN "\n" \o WrappedFrom(docs, i + 1) ELSE "")

\* C13: the context block of a request is the contents of the retrieved
\* chunks, each wrapped in <doc>...</doc>, joined by newlines in the order
\* of the ranked result; with no chunk retrieved it is the empty string and
\* the answer model is still called.
C13_ContextBlock ==
    \A r \in Reqs :
        context[r] # Null =>
            LET docs == [i \in 1..Min(K, Len(pdf)) |-> pdf[ranking[i]]]
            IN /\ context[r] = WrappedFrom(docs, 1)
               /\ docs = <<>> => context[r] = ""
               /\ genCalls[r] = 1
               /\ pc[r] \in {"generating", "completed", "failed"}

C13_Witness ==
    \E r \in Reqs :
        /\ pc[r] = "completed"
        /\ Len(pdf) = MaxChunks
        /\ ranking[1] # 1
        /\ context[r] # Null
        /\ \E o \in Reqs : o # r /\ context[o] = context[r]

\* the text of a sequence of fragments, concatenated in order
TextOf(frags) == Join([i \in 1..Len(frags) |-> StringOf(frags[i])], "")

C16_FragmentsForwarded ==
    \A r \in Reqs :
        /\ Len(resBody[r]) <= Len(genOut[r])
        /\ \A i \in 1..Len(resBody[r]) : resBody[r][i] = genOut[r][i]
        /\ slot[r] = Null => resBody[r] = genOut[r]
        /\ (handlerCalls[r] > 0 /\ resEnded[r]) =>
               (genDone[r] /\ resBody[r] = genOut[r])

C16_Witness ==
    \E r \in Reqs :
        /\ resEnded[r]
        /\ handlerCalls[r] > 0
        /\ Len(genOut[r]) = MaxFrags
        /\ resBody[r] = genOut[r]
        /\ resBody[r][1] # resBody[r][MaxFrags]

\* r's index build has ended: its chunks were embedded and stored
Built(r) == docEmbedMode[r] # Null

\* r's index build has failed
BuildFailed(r) == pc[r] = "failed" /\ splitDocs[r] # NoDocs /\ ~Built(r)

C17_SessionStoresDisjoint ==
    /\ [](\A r \in Reqs :
            /\ historyRead[r] = <<>>
            /\ DOMAIN messageHistories[r] \subseteq {sessionId[r]}
            /\ Len(Hist(r, sessionId[r])) <= 2
            /\ \A s \in SessionIds \ {sessionId[r]} : Hist(r, s) = <<>>)
    /\ [][\A r, o \in Reqs :
            (r # o /\ messageHistories[r]' # messageHistories[r]) =>
                messageHistories[o]' = messageHistories[o]]_vars

C17_Witness ==
    \E r, o \in Reqs :
        /\ o \in earlier[r]
        /\ sessionId[o] = sessionId[r]
        /\ Len(Hist(o, sessionId[o])) = 2
        /\ pc[r] = "completed"
        /\ historyRead[r] = <<>>
        /\ Len(Hist(r, sessionId[r])) = 2

\* C18: a response gets one kind of body and is completed once: a request
\* answered with the 400 error has no streaming header set, no fragment
\* written and no handler() call, and its callback has ended; a response
\* fragments were written to, or that res.end completed, has no 400 status;
\* and nothing is set, written or ended on a response once it is ended.
C18_OneKindOfBody ==
    /\ [](\A r \in Reqs :
            /\ resStatus[r] = 400 =>
                   /\ pc[r] = "rejected"
                   /\ resEnded[r]
                   /\ ~resHeaders[r]
                   /\ resBody[r] = <<>>
                   /\ handlerCalls[r] = 0
            /\ (resBody[r] # <<>> \/ pc[r] = "completed") =>
                   (resStatus[r] # 400 /\ resHeaders[r])
            /\ resEnded[r] => pc[r] \in {"rejected", "completed"})
    /\ [][\A r \in Reqs :
            resEnded[r] =>
                /\ resStatus'[r] = resStatus[r]
                /\ resHeaders'[r] = resHeaders[r]
                /\ resBody'[r] = resBody[r]
                /\ resEnded'[r]]_vars

C18_Witness ==
    \E r, o \in Reqs :
        /\ resStatus[r] = 400
        /\ pc[r] = "rejected"
        /\ pc[o] = "completed"
        /\ resBody[o] # <<>>
        /\ resStatus[o] = 0

====
